---- MODULE Spec2Model ----
(***************************************************************************)
(* A model of the replay/record controller `Tas` (src/tas/mod.rs): the     *)
(* input log `data`, the snapshot cache `greenzone`, the emulator core and *)
(* the cursors, under tick (run_host_frame), seek_to, select_next,         *)
(* select_prev, insert, overwrite (frame_mut + copy_from_slice),           *)
(* invalidate, set_run_mode and toggle_playback.                           *)
(*                                                                         *)
(* The whole `Tas` value is one record, `tas`, whose fields carry the      *)
(* names of the struct's fields.  Every method is an operator from a       *)
(* record to the set of records it may return (a set, because the cache's  *)
(* eviction choice is not fixed by the design).                            *)
(***************************************************************************)
EXTENDS Integers, Sequences, FiniteSets

VARIABLES tas

vars == <<tas>>

(***************************************************************************)
(* Bounds of the model.                                                    *)
(***************************************************************************)
\* Largest frame index a cursor is driven to.
MaxFrame == 2
\* Largest number of records the input log grows to.
MaxLen == 2
\* Largest elapsed time of one tick, in units of 1/FracUnit guest frames.
MaxDelta == 5
\* Largest n handed to select_next / select_prev.
MaxN == 2
\* The stop_at frame handed to set_run_mode.
MaxStop == 2

(***************************************************************************)
(* Program constants.                                                      *)
(***************************************************************************)
\* core_frame_fraction is counted in units of 1/FracUnit guest frames.
FracUnit == 2
\* clamp(0., 2.): the accumulator holds at most this many whole steps.
MaxBacklog == 2
\* InputPort::frame_size(): bytes of one input record.
FrameSize == 2
\* Capacity of the snapshot cache.
GreenzoneCapacity == 3

\* Option<u32>: None, or Some(s) holding s.
None == <<>>
Some(s) == <<s>>
NoPanic == "none"

\* input_port.default(&mut data): one record of default input.
DefaultRecord == <<0, 0>>
\* Another record, with a button pressed.
PressedRecord == <<1, 0>>
\* The input the core reads for a frame the log does not hold.
NoInput == <<>>

Paused == [kind |-> "Paused"]
ReadOnly == [kind |-> "ReadOnly"]
InsertMode(buf) == [kind |-> "Insert", data |-> buf]
OverwriteMode(buf) == [kind |-> "Overwrite", data |-> buf]
Running(stop, rm) == [kind |-> "Running", stop_at |-> stop, record_mode |-> rm]

Max(S) == CHOOSE x \in S : \A y \in S : y <= x
Min2(a, b) == IF a <= b THEN a ELSE b
SatSub(a, b) == IF a >= b THEN a - b ELSE 0

(***************************************************************************)
(* The emulator core: a deterministic machine whose state is the sequence  *)
(* of inputs it has consumed, so that two different input histories never  *)
(* give the same state.                                                    *)
(***************************************************************************)
CoreInitial == <<>>
CoreRunFrame(state, input) == Append(state, input)

(***************************************************************************)
(* The snapshot cache: a function from the cached frame indices to         *)
(* snapshots.                                                              *)
(***************************************************************************)
GreenzoneNew(state) == [i \in {0} |-> state]

GzCovers(gz, f) == f \in DOMAIN gz

GzRestore(gz, f) ==
  LET g == Max({i \in DOMAIN gz : i <= f})
  IN  <<g, gz[g]>>

GzInvalidate(gz, after) == [i \in {j \in DOMAIN gz : j <= after} |-> gz[i]]

GzPut(gz, f, state) ==
  [i \in (DOMAIN gz) \cup {f} |-> IF i = f THEN state ELSE gz[i]]

GzEvict(gz, j) == [i \in (DOMAIN gz) \ {j} |-> gz[i]]

\* save: store, then evict while over capacity; neither frame 0 nor the
\* entry just stored is evicted.  The set of caches save may leave.
GzSave(gz, f, state) ==
  LET put == GzPut(gz, f, state)
  IN  IF Cardinality(DOMAIN put) <= GreenzoneCapacity
      THEN {put}
      ELSE {GzEvict(put, j) : j \in (DOMAIN put) \ {0, f}}

(***************************************************************************)
(* Tas                                                                     *)
(***************************************************************************)
movie_len(t) == Len(t.data) \div FrameSize

frame(t, idx) == SubSeq(t.data, idx * FrameSize + 1, idx * FrameSize + FrameSize)

\* The input the core reads when it runs frame idx.
InputAt(data, idx) ==
  IF (idx + 1) * FrameSize <= Len(data)
  THEN SubSeq(data, idx * FrameSize + 1, idx * FrameSize + FrameSize)
  ELSE NoInput

Panic(t, what) == [t EXCEPT !.panic = what]

Event(t, e) == [t EXCEPT !.ev = Append(@, e)]

new ==
  [ playback_cursor     |-> 0,
    next_emulator_frame |-> 0,
    run_mode            |-> Running(None, InsertMode(DefaultRecord)),
    core_frame_fraction |-> 0,
    greenzone           |-> GreenzoneNew(CoreInitial),
    selected_frame      |-> 0,
    selection_locked    |-> TRUE,
    core                |-> CoreInitial,
    data                |-> DefaultRecord,
    panic               |-> NoPanic,
    ev                  |-> <<>>,
    op                  |-> "new",
    script              |-> <<>> ]

\* The cursor advance, made by every step.
AdvanceCursor_every_step(t) ==
  [t EXCEPT !.playback_cursor = @ + 1,
            !.selected_frame = IF t.selection_locked THEN @ + 1 ELSE @]

\* The cursor advance at the end of run_guest_frame.
AdvanceCursor(t) ==
  IF t.playback_cursor < t.next_emulator_frame - 1
  THEN LET n == t.next_emulator_frame - t.playback_cursor - 1
       IN  [t EXCEPT !.playback_cursor = @ + n,
                     !.selected_frame = IF t.selection_locked THEN @ + n ELSE @]
  ELSE t

\* run_guest_frame, without greenzone.save.
run_guest_frame_without_save(t) ==
  LET state == CoreRunFrame(t.core, InputAt(t.data, t.next_emulator_frame))
      nef   == t.next_emulator_frame + 1
  IN  { AdvanceCursor(Event([t EXCEPT !.core = state,
                                      !.next_emulator_frame = nef],
                            [e |-> "step"])) }

\* run_guest_frame, saving the snapshot under the frame just run.
run_guest_frame_saves_under_old_index(t) ==
  LET state == CoreRunFrame(t.core, InputAt(t.data, t.next_emulator_frame))
      nef   == t.next_emulator_frame + 1
  IN  { AdvanceCursor(Event([t EXCEPT !.core = state,
                                      !.next_emulator_frame = nef,
                                      !.greenzone = gz],
                            [e |-> "step"]))
        : gz \in GzSave(t.greenzone, nef - 1, state) }

run_guest_frame(t) ==
  LET state == CoreRunFrame(t.core, InputAt(t.data, t.next_emulator_frame))
      nef   == t.next_emulator_frame + 1
  IN  { AdvanceCursor(Event([t EXCEPT !.core = state,
                                      !.next_emulator_frame = nef,
                                      !.greenzone = gz],
                            [e |-> "step"]))
        : gz \in GzSave(t.greenzone, nef, state) }

\* invalidate, off by one: the snapshot after the edited frame survives.
invalidate_off_by_one(t, after) ==
  LET gz == GzInvalidate(t.greenzone, after + 1)
      t1 == [t EXCEPT !.greenzone = gz]
  IN  IF t.next_emulator_frame > after + 1
      THEN LET r == GzRestore(gz, after + 1)
           IN  [t1 EXCEPT !.next_emulator_frame = r[1], !.core = r[2]]
      ELSE t1

\* invalidate, forgetting to roll the core back.
invalidate_no_rollback(t, after) ==
  [t EXCEPT !.greenzone = GzInvalidate(t.greenzone, after)]

invalidate(t, after) ==
  LET gz == GzInvalidate(t.greenzone, after)
      t1 == [t EXCEPT !.greenzone = gz]
  IN  IF t.next_emulator_frame > after
      THEN LET r == GzRestore(gz, after)
           IN  [t1 EXCEPT !.next_emulator_frame = r[1], !.core = r[2]]
      ELSE t1

\* frame_mut, checking the slice bounds before it invalidates.
frame_mut_checks_bounds_first(t, idx) ==
  IF (idx + 1) * FrameSize > Len(t.data)
  THEN Panic(t, "frame_mut: index out of bounds")
  ELSE invalidate(t, idx)

\* frame_mut: invalidate, then borrow record idx (the slice is bounds-checked).
frame_mut(t, idx) ==
  LET t1 == invalidate(t, idx)
  IN  IF (idx + 1) * FrameSize > Len(t1.data)
      THEN Panic(t1, "frame_mut: index out of bounds")
      ELSE t1

\* copy_from_slice into the record frame_mut lent out.  The event records the
\* frame indices cached at the moment the bytes change.
copy_from_slice(t, idx, buf) ==
  IF Len(buf) # FrameSize
  THEN Panic(t, "copy_from_slice: length mismatch")
  ELSE Event([t EXCEPT !.data = SubSeq(@, 1, idx * FrameSize) \o buf
                                \o SubSeq(@, (idx + 1) * FrameSize + 1, Len(@))],
             [e |-> "overwrite", at |-> idx, cached |-> DOMAIN t.greenzone])

\* overwrite(i, bytes): frame_mut(i).copy_from_slice(bytes).
overwrite(t, idx, buf) ==
  LET t1 == frame_mut(t, idx)
  IN  IF t1.panic # NoPanic THEN t1 ELSE copy_from_slice(t1, idx, buf)

\* insert, splicing the bytes in before it invalidates.
insert_then_invalidate(t, idx, buf) ==
  IF Len(buf) % FrameSize # 0
  THEN Panic(t, "insert: length is not a multiple of the frame size")
  ELSE LET insert_idx == idx * FrameSize
       IN  IF insert_idx > Len(t.data)
           THEN Panic(t, "insert: splice out of bounds")
           ELSE invalidate(
                  Event([t EXCEPT !.data = SubSeq(@, 1, insert_idx) \o buf
                                           \o SubSeq(@, insert_idx + 1, Len(@))],
                        [e |-> "insert", at |-> idx, cached |-> DOMAIN t.greenzone]),
                  idx)

insert(t, idx, buf) ==
  IF Len(buf) % FrameSize # 0
  THEN Panic(t, "insert: length is not a multiple of the frame size")
  ELSE LET t1 == invalidate(t, idx)
           insert_idx == idx * FrameSize
       IN  IF insert_idx > Len(t1.data)
           THEN Panic(t1, "insert: splice out of bounds")
           ELSE Event([t1 EXCEPT !.data = SubSeq(@, 1, insert_idx) \o buf
                                          \o SubSeq(@, insert_idx + 1, Len(@))],
                      [e |-> "insert", at |-> idx, cached |-> DOMAIN t1.greenzone])

\* seek_to, moving playback_cursor only: the core stays where it is.
seek_to_cursor_only(t, f) == [t EXCEPT !.playback_cursor = f]

\* seek_to, taking the frame asked for as the frame restored.
seek_to_ignores_restored_index(t, f) ==
  LET r == GzRestore(t.greenzone, f)
  IN  [t EXCEPT !.playback_cursor = f,
                !.next_emulator_frame = f,
                !.core = r[2]]

\* seek_to, forgetting core.restore_state(state).
seek_to_no_restore(t, f) ==
  LET r == GzRestore(t.greenzone, f)
  IN  [t EXCEPT !.playback_cursor = f,
                !.next_emulator_frame = r[1]]

seek_to(t, f) ==
  LET r == GzRestore(t.greenzone, f)
  IN  [t EXCEPT !.playback_cursor = f,
                !.next_emulator_frame = r[1],
                !.core = r[2]]

toggle_playback(t) ==
  [t EXCEPT !.run_mode = IF t.run_mode.kind = "Paused"
                         THEN Running(None, ReadOnly)
                         ELSE Paused]

set_run_mode(t, mode) == [t EXCEPT !.run_mode = mode]

\* select_next, pausing only when the selection moved.
select_next_pauses_if_moved(t, n0) ==
  LET n  == Min2(n0, SatSub(movie_len(t), t.selected_frame + 1))
      t1 == [t EXCEPT !.selected_frame = @ + n]
      t2 == IF t1.selection_locked THEN seek_to(t1, t1.playback_cursor + n) ELSE t1
  IN  IF n = 0 THEN t2 ELSE [t2 EXCEPT !.run_mode = Paused]

select_next(t, n0) ==
  LET n  == Min2(n0, SatSub(movie_len(t), t.selected_frame + 1))
      t1 == [t EXCEPT !.selected_frame = @ + n]
      t2 == IF t1.selection_locked THEN seek_to(t1, t1.playback_cursor + n) ELSE t1
  IN  [t2 EXCEPT !.run_mode = Paused]

\* select_prev, moving the selection without the seek_to of the locked case.
select_prev_selection_only(t, n0) ==
  LET n == Min2(n0, t.selected_frame)
  IN  [t EXCEPT !.selected_frame = @ - n, !.run_mode = Paused]

select_prev(t, n0) ==
  LET n  == Min2(n0, t.selected_frame)
      t1 == [t EXCEPT !.selected_frame = @ - n]
      t2 == IF t1.selection_locked
            THEN seek_to(t1, SatSub(t1.playback_cursor, n))
            ELSE t1
  IN  [t2 EXCEPT !.run_mode = Paused]

(***************************************************************************)
(* run_host_frame                                                          *)
(***************************************************************************)
\* The accumulator, clamped one whole step too high.
Accumulate_clamps_too_high(fraction, elapsed) ==
  Min2(fraction + elapsed, (MaxBacklog + 1) * FracUnit)

\* The accumulator without its clamp.
AccumulateUnclamped(fraction, elapsed) == fraction + elapsed

\* core_frame_fraction += elapsed * fps, then clamp(0., 2.).
Accumulate(fraction, elapsed) == Min2(fraction + elapsed, MaxBacklog * FracUnit)

Consume(t) == [t EXCEPT !.core_frame_fraction = @ - FracUnit]

\* The catch-up loop, run only while run_mode is Running.
RECURSIVE CatchUp_only_when_running(_)
CatchUp_only_when_running(t) ==
  IF /\ t.run_mode.kind = "Running"
     /\ t.playback_cursor >= t.next_emulator_frame
     /\ t.core_frame_fraction >= FracUnit
  THEN UNION { CatchUp_only_when_running(Consume(s)) : s \in run_guest_frame(t) }
  ELSE {t}

\* "If we're behind where playback should be, seek to catch up".
RECURSIVE CatchUp(_)
CatchUp(t) ==
  IF t.playback_cursor >= t.next_emulator_frame /\ t.core_frame_fraction >= FracUnit
  THEN UNION { CatchUp(Consume(s)) : s \in run_guest_frame(t) }
  ELSE {t}

\* Catch-up carried to its end: the catch-up loops of as many ticks, each with
\* a full accumulator, as it takes for the core to produce the frame in view.
RECURSIVE CatchUpToView(_)
CatchUpToView(t) ==
  IF t.playback_cursor >= t.next_emulator_frame
  THEN UNION { CatchUpToView(s)
               : s \in CatchUp([t EXCEPT !.core_frame_fraction = MaxBacklog * FracUnit]) }
  ELSE {t}

\* The record_mode match, editing the record in view instead of the next.
ApplyRecordMode_at_cursor(t, rm) ==
  CASE rm.kind = "ReadOnly" -> t
    [] rm.kind = "Insert" ->
         IF Len(rm.data) # FrameSize
         THEN Panic(t, "run_host_frame: assert data.len() == frame_size")
         ELSE insert(t, t.playback_cursor, rm.data)
    [] rm.kind = "Overwrite" ->
         IF Len(rm.data) # FrameSize
         THEN Panic(t, "run_host_frame: assert data.len() == frame_size")
         ELSE overwrite(t, t.playback_cursor, rm.data)

\* The record_mode match of the run loop.
ApplyRecordMode(t, rm) ==
  CASE rm.kind = "ReadOnly" -> t
    [] rm.kind = "Insert" ->
         IF Len(rm.data) # FrameSize
         THEN Panic(t, "run_host_frame: assert data.len() == frame_size")
         ELSE insert(t, t.playback_cursor + 1, rm.data)
    [] rm.kind = "Overwrite" ->
         IF Len(rm.data) # FrameSize
         THEN Panic(t, "run_host_frame: assert data.len() == frame_size")
         ELSE overwrite(t, t.playback_cursor + 1, rm.data)

\* The run loop, stopping only once playback_cursor has passed stop_at.
RECURSIVE RunLoop_stops_late(_, _, _)
RunLoop_stops_late(t, stop_at, rm) ==
  IF t.core_frame_fraction < FracUnit
  THEN {t}
  ELSE IF stop_at # None /\ t.playback_cursor > stop_at[1]
       THEN {Event([t EXCEPT !.run_mode = Paused],
                   [e |-> "stop", at |-> t.playback_cursor])}
       ELSE LET t1 == ApplyRecordMode(t, rm)
            IN  IF t1.panic # NoPanic
                THEN {t1}
                ELSE IF t1.next_emulator_frame # t1.playback_cursor + 1
                     THEN {Panic(t1, "run_host_frame: assert next_emulator_frame == playback_cursor + 1")}
                     ELSE UNION { RunLoop_stops_late(Consume(s), stop_at, rm)
                                  : s \in run_guest_frame(t1) }

\* The while loop of the Running arm; run_mode is Paused while it runs.
RECURSIVE RunLoop(_, _, _)
RunLoop(t, stop_at, rm) ==
  IF t.core_frame_fraction < FracUnit
  THEN {t}
  ELSE IF stop_at # None /\ t.playback_cursor >= stop_at[1]
       THEN {Event([t EXCEPT !.run_mode = Paused],
                   [e |-> "stop", at |-> t.playback_cursor])}
       ELSE LET t1 == ApplyRecordMode(t, rm)
            IN  IF t1.panic # NoPanic
                THEN {t1}
                ELSE IF t1.next_emulator_frame # t1.playback_cursor + 1
                     THEN {Panic(t1, "run_host_frame: assert next_emulator_frame == playback_cursor + 1")}
                     ELSE UNION { RunLoop(Consume(s), stop_at, rm)
                                  : s \in run_guest_frame(t1) }

\* From `let run_mode = std::mem::replace(..)` to `self.run_mode = run_mode`:
\* the mode taken out before the match is put back after it, whatever the
\* loop assigned.
RunPhase(t) ==
  LET run_mode == t.run_mode
      t1 == [t EXCEPT !.run_mode = Paused]
      after == IF run_mode.kind = "Paused"
               THEN {t1}
               ELSE RunLoop(t1, run_mode.stop_at, run_mode.record_mode)
  IN  { IF s.panic # NoPanic THEN s ELSE [s EXCEPT !.run_mode = run_mode]
        : s \in after }

run_host_frame(t, elapsed) ==
  LET t1 == [t EXCEPT !.core_frame_fraction = Accumulate(@, elapsed)]
  IN  UNION { IF s.core_frame_fraction < FracUnit THEN {s} ELSE RunPhase(s)
              : s \in CatchUp(t1) }

(***************************************************************************)
(* The inputs the operations are driven with.                              *)
(***************************************************************************)
\* Buffers handed to insert: one record, two records, and a ragged one.
InsertBufs == {PressedRecord, PressedRecord \o DefaultRecord, <<1>>}
\* Buffers handed to overwrite: one record, and a ragged one.
OverwriteBufs == {PressedRecord, <<1>>}
\* Modes handed to set_run_mode.  With the mode set at construction (Insert,
\* no stop_at) and the one toggle_playback sets (ReadOnly, no stop_at), every
\* record mode runs, ReadOnly and Insert both with and without a stop_at.
RunModes ==
  { Paused,
    Running(Some(MaxStop), ReadOnly),
    Running(Some(MaxStop), InsertMode(PressedRecord)),
    Running(None, OverwriteMode(PressedRecord)) }

\* The start of a call: the record of the previous call is dropped.
Begin(t, op) == [t EXCEPT !.ev = <<>>, !.op = op]

Alive == tas.panic = NoPanic

(***************************************************************************)
(* Actions: one per public operation of Tas.                               *)
(***************************************************************************)
Init == tas = new

\* The cursors and the log stay within the bounds of the model: an outcome
\* beyond them is not explored.
InBounds(t) ==
  /\ t.playback_cursor <= MaxFrame
  /\ t.next_emulator_frame <= MaxFrame + 1
  /\ t.selected_frame <= MaxFrame
  /\ movie_len(t) <= MaxLen

Tick(elapsed) ==
  /\ Alive
  /\ \E s \in run_host_frame(Begin(tas, "run_host_frame"), elapsed) : InBounds(s) /\ tas' = s

SeekTo(f) ==
  /\ Alive
  /\ tas' = seek_to(Begin(tas, "seek_to"), f)

SelectNext(n) ==
  /\ Alive
  /\ InBounds(select_next(Begin(tas, "select_next"), n))
  /\ tas' = select_next(Begin(tas, "select_next"), n)

SelectPrev(n) ==
  /\ Alive
  /\ tas' = select_prev(Begin(tas, "select_prev"), n)

Insert(idx, buf) ==
  /\ Alive
  /\ InBounds(insert(Begin(tas, "insert"), idx, buf))
  /\ tas' = insert(Begin(tas, "insert"), idx, buf)

Overwrite(idx, buf) ==
  /\ Alive
  /\ tas' = overwrite(Begin(tas, "overwrite"), idx, buf)

Invalidate(after) ==
  /\ Alive
  /\ tas' = invalidate(Begin(tas, "invalidate"), after)

SetRunMode(mode) ==
  /\ Alive
  /\ tas' = set_run_mode(Begin(tas, "set_run_mode"), mode)

TogglePlayback ==
  /\ Alive
  /\ tas' = toggle_playback(Begin(tas, "toggle_playback"))

Next ==
  \/ \E elapsed \in 0..MaxDelta : Tick(elapsed)
  \/ \E f \in 0..MaxFrame : SeekTo(f)
  \/ \E n \in 0..MaxN : SelectNext(n)
  \/ \E n \in 0..MaxN : SelectPrev(n)
  \/ \E idx \in 0..MaxLen, buf \in InsertBufs : Insert(idx, buf)
  \/ \E idx \in 0..MaxLen, buf \in OverwriteBufs : Overwrite(idx, buf)
  \/ \E after \in 0..MaxFrame : Invalidate(after)
  \/ \E mode \in RunModes : SetRunMode(mode)
  \/ TogglePlayback

Spec == Init /\ [][Next]_vars

(***************************************************************************)
(* The scenario of a log of ScenarioLen default frames: seeks and ticks    *)
(* from the state after construction, the calls made so far kept in        *)
(* `script`.                                                               *)
(***************************************************************************)
\* Records of the scenario's log.
ScenarioLen == 10
\* The frame the scenario seeks to.
ScenarioFrame == 7
\* Calls a scenario run makes.
ScenarioCalls == 2
\* Largest elapsed time of a scenario tick, in whole steps.
ScenarioMaxSteps == 8

RECURSIVE DefaultFrames(_)
DefaultFrames(n) == IF n = 0 THEN <<>> ELSE DefaultRecord \o DefaultFrames(n - 1)

\* `new`, then insert(1, ..) of the default frames the log lacks.
ScenarioInit ==
  tas = [insert(new, 1, DefaultFrames(ScenarioLen - 1)) EXCEPT !.ev = <<>>]

Scripted(t, call) == [t EXCEPT !.script = Append(tas.script, call)]

ScenarioSeekTo(f) ==
  /\ Alive
  /\ Len(tas.script) < ScenarioCalls
  /\ tas' = Scripted(seek_to(Begin(tas, "seek_to"), f), <<"seek_to", f>>)

ScenarioTick(elapsed) ==
  /\ Alive
  /\ Len(tas.script) < ScenarioCalls
  /\ \E s \in run_host_frame(Begin(tas, "run_host_frame"), elapsed) :
       tas' = Scripted(s, <<"tick", elapsed>>)

ScenarioNext ==
  \/ \E f \in 0..(ScenarioLen - 1) : ScenarioSeekTo(f)
  \/ \E elapsed \in 0..(ScenarioMaxSteps * FracUnit) : ScenarioTick(elapsed)

ScenarioSpec == ScenarioInit /\ [][ScenarioNext]_vars

(***************************************************************************)
(* Recording from the state after construction: one set_run_mode to        *)
(* Running{stop_at: Some(s), record_mode: Insert}, then ticks only.        *)
(***************************************************************************)
\* Largest stop_at the recording is given.
RecordStop == 5

RecordSetRunMode(s) ==
  /\ Alive
  /\ tas.op = "new"
  /\ tas' = set_run_mode(Begin(tas, "set_run_mode"),
                         Running(Some(s), InsertMode(PressedRecord)))

RecordTick(elapsed) ==
  /\ Alive
  /\ tas.op # "new"
  /\ \E s \in run_host_frame(Begin(tas, "run_host_frame"), elapsed) : tas' = s

RecordNext ==
  \/ \E s \in 0..RecordStop : RecordSetRunMode(s)
  \/ \E elapsed \in 0..MaxDelta : RecordTick(elapsed)

RecordSpec == Init /\ [][RecordNext]_vars

(***************************************************************************)
(* Catch-up: any calls of seek_to, invalidate, set_run_mode and            *)
(* run_host_frame, and from some call on run_host_frame only (`script`     *)
(* is then no longer empty); ticks in which a whole step's worth of time   *)
(* has elapsed keep coming.                                                *)
(***************************************************************************)
CatchUpSetup ==
  /\ tas.script = <<>>
  /\ \/ \E elapsed \in 0..MaxDelta : Tick(elapsed)
     \/ \E f \in 0..MaxFrame : SeekTo(f)
     \/ \E after \in 0..MaxFrame : Invalidate(after)
     \/ \E mode \in RunModes : SetRunMode(mode)

\* A tick after which no call but run_host_frame is made.  Once the core has
\* caught up, only the outcomes within the bounds of the model are explored.
CatchUpTick(elapsed) ==
  /\ Alive
  /\ \E s \in run_host_frame(Begin(tas, "run_host_frame"), elapsed) :
       /\ (tas.next_emulator_frame > tas.playback_cursor) => InBounds(s)
       /\ tas' = [s EXCEPT !.script = <<"run_host_frame only">>]

CatchUpNext ==
  \/ CatchUpSetup
  \/ \E elapsed \in 0..MaxDelta : CatchUpTick(elapsed)

CatchUpSpec ==
  /\ Init
  /\ [][CatchUpNext]_vars
  /\ WF_vars(tas.script # <<>> /\ \E elapsed \in FracUnit..MaxDelta : CatchUpTick(elapsed))

(***************************************************************************)
(* Properties                                                              *)
(***************************************************************************)
\* The core state after running frames 0..k-1 of the log `data` from the
\* initial state (a frame the log does not hold is run with no input).
Simulate(data, k) == [i \in 1..k |-> InputAt(data, i - 1)]

IsEdit(e) == e.e \in {"insert", "overwrite"}
Steps(t) == Cardinality({k \in 1..Len(t.ev) : t.ev[k].e = "step"})
Edits(t) == {k \in 1..Len(t.ev) : IsEdit(t.ev[k])}
Stopped(t) == \E k \in 1..Len(t.ev) : t.ev[k].e = "stop"

\* C1: cache coherence.  In every reachable state each snapshot cached at an
\* index F <= movie_len is the core state after simulating records 0..F-1 of
\* the current log, and the core's own state is the state after simulating
\* records 0..next_emulator_frame-1 of the current log.
C1_CacheCoherence ==
  /\ \A F \in DOMAIN tas.greenzone :
       F <= movie_len(tas) => tas.greenzone[F] = Simulate(tas.data, F)
  /\ tas.core = Simulate(tas.data, tas.next_emulator_frame)

\* C1 witness: record 0 was rewritten after frames were cached, and the frames
\* behind it have been simulated and cached again under the new input.
C1_Witness ==
  /\ Alive
  /\ frame(tas, 0) = PressedRecord
  /\ movie_len(tas) = 2
  /\ tas.next_emulator_frame = 2
  /\ DOMAIN tas.greenzone = {0, 1, 2}

\* C2: whenever the log bytes change (an insert or an overwrite at index i,
\* called directly or by the run phase), no frame index j > i is cached at
\* that moment: the invalidation has already been done; and when the edit is
\* the last thing the call did, covers(j) is false for every j > i afterwards.
C2_EditInvalidatesFirst ==
  /\ \A k \in Edits(tas) : \A j \in tas.ev[k].cached : j <= tas.ev[k].at
  /\ (tas.ev # <<>> /\ IsEdit(tas.ev[Len(tas.ev)]))
       => \A j \in DOMAIN tas.greenzone : j <= tas.ev[Len(tas.ev)].at

\* C2 witness: an overwrite of record 0 has returned with frame 2 or later in
\* view, the core at frame 0 and nothing cached but frame 0.
C2_Witness ==
  /\ Alive
  /\ tas.op = "overwrite"
  /\ Edits(tas) # {}
  /\ tas.ev[1].at = 0
  /\ tas.playback_cursor >= 2
  /\ tas.next_emulator_frame = 0
  /\ DOMAIN tas.greenzone = {0}

\* C3: when a tick's run loop finds stop_at reached (playback_cursor >= stop
\* with a whole step owed), run_mode is Paused after the tick.
C3_StopPauses == (Alive /\ Stopped(tas)) => tas.run_mode = Paused
\* The scenario's calls: seek_to(ScenarioFrame), then one tick whose elapsed
\* time is worth at least ScenarioFrame steps.
ScenarioSeekThenTick ==
  /\ Len(tas.script) = 2
  /\ tas.script[1] = <<"seek_to", ScenarioFrame>>
  /\ tas.script[2][1] = "tick"
  /\ tas.script[2][2] >= ScenarioFrame * FracUnit

\* C4 as stated: after seek_to(7) and one tick worth at least 7 steps,
\* playback_cursor = 7 and next_emulator_frame = 8.
C4_AsStated ==
  ScenarioSeekThenTick =>
    /\ tas.playback_cursor = ScenarioFrame
    /\ tas.next_emulator_frame = ScenarioFrame + 1

\* C4 amended: after seek_to(7) and one tick worth at least 7 steps,
\* playback_cursor = 7 and next_emulator_frame = 2: the accumulator is clamped
\* to MaxBacklog steps, and the tick ran exactly that many.
C4_OneTickRunsTwoSteps ==
  ScenarioSeekThenTick =>
    /\ tas.playback_cursor = ScenarioFrame
    /\ tas.next_emulator_frame = MaxBacklog
    /\ Steps(tas) = MaxBacklog

\* C4 witness: the scenario has run: seek_to(7), one tick worth 7 steps.
C4_Witness ==
  /\ ScenarioSeekThenTick
  /\ tas.script[2][2] = ScenarioFrame * FracUnit
  /\ movie_len(tas) = ScenarioLen
  /\ tas.next_emulator_frame = 2

CaughtUp(t) == t.next_emulator_frame = t.playback_cursor + 1

\* C5: seek_to idempotence.  In a state where catch-up is complete for the
\* frame f in view (as after seek_to(f) and its catch-up), seek_to(f) again
\* and its catch-up give the same playback_cursor, the same
\* next_emulator_frame and the same core state.
C5_SeekIdempotent ==
  (Alive /\ CaughtUp(tas)) =>
    \A s \in CatchUpToView(seek_to(tas, tas.playback_cursor)) :
      /\ s.playback_cursor = tas.playback_cursor
      /\ s.next_emulator_frame = tas.next_emulator_frame
      /\ s.core = tas.core

\* C5 witness: catch-up to frame 2 is complete under an edited log and frame
\* 2 is not cached, so the second seek_to(2) has to run frames 1 and 2 again.
C5_Witness ==
  /\ Alive
  /\ tas.op = "run_host_frame"
  /\ tas.playback_cursor = 2
  /\ CaughtUp(tas)
  /\ frame(tas, 0) = PressedRecord
  /\ DOMAIN tas.greenzone = {0, 1, 3}

\* C6: seek_to(f) sets playback_cursor to f, restores the core to the
\* snapshot at the largest cached index g <= f and sets next_emulator_frame
\* to g (so it is at most f); it runs no frame and leaves the log, the cache,
\* selected_frame and run_mode as they were.
C6_SeekToEffect ==
  [][\A f \in 0..MaxFrame :
       SeekTo(f) =>
         LET cached == {i \in DOMAIN tas.greenzone : i <= f}
             g == CHOOSE i \in cached : \A j \in cached : j <= i
         IN  /\ tas'.playback_cursor = f
             /\ tas'.next_emulator_frame = g
             /\ tas'.next_emulator_frame <= f
             /\ tas'.core = tas.greenzone[g]
             /\ Steps(tas') = 0
             /\ tas'.data = tas.data
             /\ tas'.greenzone = tas.greenzone
             /\ tas'.selected_frame = tas.selected_frame
             /\ tas'.run_mode = tas.run_mode]_vars

\* C6 witness: a seek_to(2) came back with the core restored to the snapshot
\* at frame 1, frame 2 not being cached while a later frame is.
C6_Witness ==
  /\ tas.op = "seek_to"
  /\ tas.playback_cursor = 2
  /\ tas.next_emulator_frame = 1
  /\ tas.core = Simulate(tas.data, 1)
  /\ DOMAIN tas.greenzone = {0, 1, 3}

\* C7: invalidate(k) leaves no cached index above k; if next_emulator_frame
\* was above k the core is restored to the snapshot at the largest remaining
\* index g <= k and next_emulator_frame becomes g, otherwise both are
\* unchanged; playback_cursor, selected_frame, run_mode and the log are
\* unchanged and no frame is run.
C7_InvalidateEffect ==
  [][\A k \in 0..MaxFrame :
       Invalidate(k) =>
         LET left == {i \in DOMAIN tas.greenzone : i <= k}
             g == CHOOSE i \in left : \A j \in left : j <= i
         IN  /\ DOMAIN tas'.greenzone = left
             /\ \A i \in left : tas'.greenzone[i] = tas.greenzone[i]
             /\ IF tas.next_emulator_frame > k
                THEN /\ tas'.next_emulator_frame = g
                     /\ tas'.core = tas.greenzone[g]
                ELSE /\ tas'.next_emulator_frame = tas.next_emulator_frame
                     /\ tas'.core = tas.core
             /\ Steps(tas') = 0
             /\ tas'.playback_cursor = tas.playback_cursor
             /\ tas'.selected_frame = tas.selected_frame
             /\ tas'.run_mode = tas.run_mode
             /\ tas'.data = tas.data]_vars

\* C7 witness: an invalidate came back with the core rolled back to frame 1,
\* behind the frame in view, and nothing cached above frame 1.
C7_Witness ==
  /\ tas.op = "invalidate"
  /\ tas.playback_cursor = 2
  /\ tas.next_emulator_frame = 1
  /\ tas.core = Simulate(tas.data, 1)
  /\ DOMAIN tas.greenzone = {0, 1}

\* C8: the snapshot of frame 0 is never removed: covers(0) holds and
\* restore(0) returns index 0 with the initial core state.
C8_FrameZeroKept ==
  /\ GzCovers(tas.greenzone, 0)
  /\ GzRestore(tas.greenzone, 0) = <<0, CoreInitial>>

\* C8 witness: the cache is full after more saves than it holds (an entry has
\* been evicted) and after an edit of the log.
C8_Witness ==
  /\ Alive
  /\ tas.next_emulator_frame = 3
  /\ ~GzCovers(tas.greenzone, 1)
  /\ Cardinality(DOMAIN tas.greenzone) = GreenzoneCapacity
  /\ frame(tas, 0) = PressedRecord

ValidCursors(t) ==
  /\ t.selected_frame <= movie_len(t) - 1
  /\ t.playback_cursor <= movie_len(t) - 1

\* C9: select_next / select_prev produce a valid cursor: called with
\* selected_frame and playback_cursor inside the log, they leave
\* selected_frame in [0, len-1] and seek to a frame in [0, len-1].
C9_SelectKeepsCursorsValid ==
  [][(Alive /\ ValidCursors(tas) /\ tas'.op \in {"select_next", "select_prev"})
       => (tas'.panic = NoPanic /\ ValidCursors(tas'))]_vars

\* C10: in ReadOnly and Overwrite record modes a tick started with the
\* cursors inside the log makes no out-of-bounds log access and leaves
\* playback_cursor and next_emulator_frame - 1 at most len - 1, whatever
\* stop_at is.
C10_PlaybackStaysInLog ==
  [][(/\ Alive
      /\ ValidCursors(tas)
      /\ tas.next_emulator_frame <= movie_len(tas)
      /\ tas.run_mode.kind = "Running"
      /\ tas.run_mode.record_mode.kind \in {"ReadOnly", "Overwrite"}
      /\ tas'.op = "run_host_frame")
       => (/\ tas'.panic = NoPanic
           /\ tas'.playback_cursor <= movie_len(tas') - 1
           /\ tas'.next_emulator_frame - 1 <= movie_len(tas') - 1)]_vars

\* The insert events of the current call, and the steps the run loop took in
\* Insert mode (each comes straight after the insert of its record).
Inserts(t) == {k \in 1..Len(t.ev) : t.ev[k].e = "insert"}
RunSteps(t) == {k \in 2..Len(t.ev) : t.ev[k].e = "step" /\ t.ev[k - 1].e = "insert"}

\* C11: recording in Insert mode with stop_at = s from the state after
\* construction.  playback_cursor never exceeds s and the log holds its
\* initial record plus one record per frame playback_cursor has advanced;
\* every tick inserts exactly one record per run-loop step, the k-th of them
\* at index playback_cursor + 1 for the cursor advanced by the k-1 steps
\* before it, advances playback_cursor by the number of run-loop steps, and
\* once playback_cursor = s inserts nothing and runs no run-loop step.
C11_InsertRecording ==
  /\ [](tas.op # "new" =>
          /\ tas.panic = NoPanic
          /\ tas.playback_cursor <= tas.run_mode.stop_at[1]
          /\ movie_len(tas) = movie_len(new) + tas.playback_cursor)
  /\ [][tas'.op = "run_host_frame" =>
          LET ins == Inserts(tas')
              run == RunSteps(tas')
          IN  /\ Cardinality(ins) = Cardinality(run)
              /\ \A k \in ins : k + 1 \in run
              /\ \A k \in ins :
                   tas'.ev[k].at
                     = tas.playback_cursor + Cardinality({j \in ins : j < k}) + 1
              /\ tas'.playback_cursor = tas.playback_cursor + Cardinality(run)
              /\ movie_len(tas') = movie_len(tas) + Cardinality(run)
              /\ tas.playback_cursor = tas.run_mode.stop_at[1]
                   => (ins = {} /\ run = {} /\ tas'.data = tas.data)]_vars

\* C11 witness: a recording with stop_at = 2 has reached its stop: the last
\* tick inserted a record at index 2, stepped to frame 2 and then found the
\* stop with a step still owed.
C11_Witness ==
  /\ tas.op = "run_host_frame"
  /\ tas.run_mode = Running(Some(2), InsertMode(PressedRecord))
  /\ tas.playback_cursor = 2
  /\ movie_len(tas) = 3
  /\ Inserts(tas) # {}
  /\ Stopped(tas)

\* The fields the core, the cache and the log make up.
SameSimulation(t, u) ==
  /\ u.data = t.data
  /\ u.greenzone = t.greenzone
  /\ u.next_emulator_frame = t.next_emulator_frame
  /\ u.core = t.core

\* What invalidate(idx) and nothing else does to t, giving u.
OnlyInvalidated(t, idx, u) ==
  /\ u.data = t.data
  /\ DOMAIN u.greenzone = {i \in DOMAIN t.greenzone : i <= idx}
  /\ \A i \in DOMAIN u.greenzone : u.greenzone[i] = t.greenzone[i]
  /\ IF t.next_emulator_frame > idx
     THEN /\ u.next_emulator_frame = Max(DOMAIN u.greenzone)
          /\ u.core = t.greenzone[u.next_emulator_frame]
     ELSE /\ u.next_emulator_frame = t.next_emulator_frame
          /\ u.core = t.core
  /\ u.playback_cursor = t.playback_cursor
  /\ u.selected_frame = t.selected_frame
  /\ u.run_mode = t.run_mode

\* C12 as stated: when an insert of a ragged buffer, an insert at an index
\* beyond the log or an overwrite at an index outside the log fails, the log,
\* the cache, next_emulator_frame and the core state are those before the call.
C12_AsStated ==
  [][(tas'.op \in {"insert", "overwrite"}
      /\ tas'.panic \in {"insert: length is not a multiple of the frame size",
                         "insert: splice out of bounds",
                         "frame_mut: index out of bounds"})
       => SameSimulation(tas, tas')]_vars

\* C12 amended: each of these calls fails, with the log unchanged.  An insert
\* of a ragged buffer fails before anything changed.  An insert at idx beyond
\* the log and an overwrite at idx outside the log fail after invalidate(idx)
\* has run: the cache has lost its entries above idx and, if
\* next_emulator_frame was above idx, the core is rolled back to the largest
\* index still cached; nothing else has changed.
C12_FailsAfterInvalidate ==
  [][/\ tas'.op = "insert" =>
          \A idx \in 0..MaxLen, buf \in InsertBufs :
            /\ (Len(buf) % FrameSize # 0 /\ Insert(idx, buf))
                 => (/\ tas'.panic = "insert: length is not a multiple of the frame size"
                     /\ SameSimulation(tas, tas'))
            /\ (Len(buf) % FrameSize = 0 /\ idx > movie_len(tas) /\ Insert(idx, buf))
                 => (/\ tas'.panic = "insert: splice out of bounds"
                     /\ OnlyInvalidated(tas, idx, tas'))
     /\ tas'.op = "overwrite" =>
          \A idx \in 0..MaxLen, buf \in OverwriteBufs :
            (idx >= movie_len(tas) /\ Overwrite(idx, buf))
              => (/\ tas'.panic = "frame_mut: index out of bounds"
                  /\ OnlyInvalidated(tas, idx, tas'))]_vars

\* C12 witness: an insert at index 2 of a log of one record has failed, with
\* frame 2 in view, the cache cut back to frames 0 and 1 and the core at
\* frame 1.
C12_Witness ==
  /\ tas.op = "insert"
  /\ tas.panic = "insert: splice out of bounds"
  /\ movie_len(tas) = 1
  /\ tas.playback_cursor = 2
  /\ tas.next_emulator_frame = 1
  /\ DOMAIN tas.greenzone = {0, 1}

\* C13: catch-up liveness.  Once only ticks are made, a state in which
\* next_emulator_frame <= playback_cursor (as seek_to or an invalidation
\* leaves it) leads to next_emulator_frame = playback_cursor + 1, whatever
\* run_mode is; and a tick that starts and ends with the core still behind
\* leaves playback_cursor where it was.
C13_CatchUpCompletes ==
  /\ (tas.script # <<>> /\ tas.next_emulator_frame <= tas.playback_cursor)
       ~> CaughtUp(tas)
  /\ [][(/\ tas'.script # <<>>
         /\ tas.next_emulator_frame <= tas.playback_cursor
         /\ tas'.next_emulator_frame <= tas'.playback_cursor)
          => tas'.playback_cursor = tas.playback_cursor]_vars

\* C13 witness: with run_mode Paused and only ticks being made, the core has
\* caught up with frame 2 from a snapshot behind it.
C13_Witness ==
  /\ tas.script # <<>>
  /\ tas.run_mode = Paused
  /\ tas.playback_cursor = 2
  /\ CaughtUp(tas)
  /\ Steps(tas) = 2

\* C14: the assertion next_emulator_frame == playback_cursor + 1 of the run
\* loop never fails, in any record mode, in any state the public operations
\* reach; and a tick whose run loop recorded a frame returns with
\* next_emulator_frame = playback_cursor + 1.
C14_RecordingPreconditionHolds ==
  /\ tas.panic # "run_host_frame: assert next_emulator_frame == playback_cursor + 1"
  /\ (Alive /\ tas.op = "run_host_frame" /\ Edits(tas) # {}) => CaughtUp(tas)

\* C14 witness: one tick caught up with frame 0 after the core had been
\* rolled back, then overwrote record 1 and ran it: the assertion was
\* evaluated after an edit made by the run loop.
C14_Witness ==
  /\ Alive
  /\ tas.op = "run_host_frame"
  /\ Len(tas.ev) = 3
  /\ tas.ev[1].e = "step"
  /\ tas.ev[2].e = "overwrite"
  /\ tas.ev[3].e = "step"
  /\ tas.playback_cursor = 1

\* C15: in every reachable state next_emulator_frame <= playback_cursor + 1,
\* and a step taken there advances playback_cursor by 0 or by exactly 1 and
\* selected_frame (the selection being locked) by as much; over a tick,
\* playback_cursor and selected_frame advance by the same amount, which is
\* at most the number of steps the tick ran.
C15_CoreAtMostOneAhead ==
  /\ [](/\ tas.next_emulator_frame <= tas.playback_cursor + 1
        /\ \A s \in run_guest_frame(tas) :
             /\ s.playback_cursor - tas.playback_cursor \in {0, 1}
             /\ s.selected_frame - tas.selected_frame
                  = s.playback_cursor - tas.playback_cursor)
  /\ [][tas'.op = "run_host_frame" =>
          /\ tas'.playback_cursor - tas.playback_cursor \in 0..Steps(tas')
          /\ tas'.selected_frame - tas.selected_frame
               = tas'.playback_cursor - tas.playback_cursor]_vars

\* C15 witness: a ReadOnly tick ran two steps and returned with
\* playback_cursor and selected_frame at frame 2, one frame behind
\* next_emulator_frame.
C15_Witness ==
  /\ Alive
  /\ tas.op = "run_host_frame"
  /\ tas.run_mode.kind = "Running"
  /\ tas.run_mode.record_mode = ReadOnly
  /\ Steps(tas) = 2
  /\ tas.playback_cursor = 2
  /\ tas.selected_frame = 2
  /\ tas.next_emulator_frame = 3
  /\ DOMAIN tas.greenzone = {0, 2, 3}

\* Everything but the accumulator is as it was.
OnlyTimeAccumulated(t, u) ==
  /\ SameSimulation(t, u)
  /\ u.playback_cursor = t.playback_cursor
  /\ u.selected_frame = t.selected_frame
  /\ u.run_mode = t.run_mode

\* C16: pacing.  A tick runs at most MaxBacklog (2) steps, catch-up loop and
\* run loop together, whatever time has elapsed; and a tick after whose
\* accumulation less than one whole step is owed runs no step and leaves the
\* cursors, the log, the cache and the core as they were.
C16_PacingBound ==
  /\ [](tas.op = "run_host_frame" => Steps(tas) <= MaxBacklog)
  /\ [][tas'.op = "run_host_frame" =>
          \A elapsed \in 0..MaxDelta :
            (Accumulate(tas.core_frame_fraction, elapsed) < FracUnit /\ Tick(elapsed))
              => /\ tas'.ev = <<>>
                 /\ tas'.panic = NoPanic
                 /\ OnlyTimeAccumulated(tas, tas')]_vars

\* C16 witness: a tick has run MaxBacklog steps and returned with nothing
\* left in the accumulator and the core still behind the frame in view.
C16_Witness ==
  /\ Alive
  /\ tas.op = "run_host_frame"
  /\ Steps(tas) = MaxBacklog
  /\ tas.core_frame_fraction = 0
  /\ tas.next_emulator_frame = 2
  /\ tas.playback_cursor = 2

\* The snapshot cached at t's next_emulator_frame is t's core state.
CoreStateCached(t) ==
  /\ GzCovers(t.greenzone, t.next_emulator_frame)
  /\ GzRestore(t.greenzone, t.next_emulator_frame) = <<t.next_emulator_frame, t.core>>

\* C17: run_guest_frame increments next_emulator_frame by exactly 1, runs the
\* core one frame and stores the new state at the new next_emulator_frame, so
\* that covers(next_emulator_frame) holds and restore(next_emulator_frame)
\* returns that index with that state; it does not change the log.  This
\* holds of a step taken in any reachable state, and in the state a tick
\* returns in when a step was the last thing it did.
C17_StepSavesNewState ==
  /\ Alive =>
       \A s \in run_guest_frame(tas) :
         /\ s.next_emulator_frame = tas.next_emulator_frame + 1
         /\ s.core = CoreRunFrame(tas.core, InputAt(tas.data, tas.next_emulator_frame))
         /\ CoreStateCached(s)
         /\ s.data = tas.data
  /\ (tas.ev # <<>> /\ tas.ev[Len(tas.ev)].e = "step") => CoreStateCached(tas)

\* C17 witness: a tick ended with a step that stored the snapshot of frame 3
\* in a full cache, from which the snapshot of frame 1 has been evicted.
C17_Witness ==
  /\ Alive
  /\ tas.ev # <<>>
  /\ tas.ev[Len(tas.ev)].e = "step"
  /\ tas.next_emulator_frame = 3
  /\ GzCovers(tas.greenzone, 3)
  /\ ~GzCovers(tas.greenzone, 1)
  /\ Cardinality(DOMAIN tas.greenzone) = GreenzoneCapacity

\* The cursors, run_mode and the log are as they were.
CursorsAndLogUnchanged(t, u) ==
  /\ u.playback_cursor = t.playback_cursor
  /\ u.selected_frame = t.selected_frame
  /\ u.run_mode = t.run_mode
  /\ u.data = t.data

\* Steps the catch-up loop has to run before the core has produced the frame
\* in view.
Behind(t) == t.playback_cursor + 1 - t.next_emulator_frame

RunningReadOnly(t) ==
  t.run_mode.kind = "Running" /\ t.run_mode.record_mode = ReadOnly

\* C18 as stated: any tick taken while run_mode is Paused, or while run_mode
\* is Running in ReadOnly record mode and the core is behind the frame in
\* view, leaves playback_cursor, selected_frame, run_mode and the log
\* unchanged.
C18_AsStated ==
  [][(/\ tas'.op = "run_host_frame"
      /\ \/ tas.run_mode = Paused
         \/ RunningReadOnly(tas) /\ Behind(tas) >= 1)
       => CursorsAndLogUnchanged(tas, tas')]_vars

\* C18 amended: the catch-up loop of a tick, whatever run_mode is, and any
\* tick taken while run_mode is Paused leave playback_cursor, selected_frame,
\* run_mode and the log unchanged.  A tick taken in ReadOnly record mode with
\* the core behind leaves run_mode and the log unchanged; it leaves
\* playback_cursor and selected_frame unchanged if it runs no more steps than
\* the core was behind, and otherwise its run loop advances both by the
\* steps it ran beyond those.
C18_CatchUpKeepsCursors ==
  /\ [](Alive =>
          \A elapsed \in 0..MaxDelta :
            \A s \in CatchUp([tas EXCEPT !.core_frame_fraction = Accumulate(@, elapsed)]) :
              CursorsAndLogUnchanged(tas, s))
  /\ [][tas'.op = "run_host_frame" =>
          /\ tas.run_mode = Paused => CursorsAndLogUnchanged(tas, tas')
          /\ (RunningReadOnly(tas) /\ Behind(tas) >= 1) =>
               LET ran == IF Steps(tas') > Behind(tas)
                          THEN Steps(tas') - Behind(tas) ELSE 0
               IN  /\ tas'.run_mode = tas.run_mode
                   /\ tas'.data = tas.data
                   /\ tas'.playback_cursor = tas.playback_cursor + ran
                   /\ tas'.selected_frame = tas.selected_frame + ran]_vars

\* C18 witness: a tick taken while Paused ran two catch-up steps towards
\* frame 2, which a seek_to had put in view, and left playback_cursor at 2
\* and selected_frame at 0.
C18_Witness ==
  /\ Alive
  /\ tas.op = "run_host_frame"
  /\ tas.run_mode = Paused
  /\ Steps(tas) = 2
  /\ tas.playback_cursor = 2
  /\ tas.next_emulator_frame = 2
  /\ tas.selected_frame = 0

\* The locked selection is on the frame in view.
SelectionTracksView(t) ==
  t.selection_locked => t.selected_frame = t.playback_cursor

\* C19 as stated: in every state the public operations reach, seek_to among
\* them, the locked selection is on the frame in view.
C19_AsStated == SelectionTracksView(tas)

\* C19 amended: the selection is locked from construction on, and on the
\* frame in view then; every public operation but a direct seek_to, called
\* with the locked selection on the frame in view, returns with it on the
\* frame in view; a direct seek_to leaves selected_frame where it was.
C19_SelectionTracksViewWithoutSeek ==
  /\ [](tas.selection_locked /\ SelectionTracksView(new))
  /\ [][/\ (SelectionTracksView(tas) /\ tas'.op # "seek_to")
             => SelectionTracksView(tas')
        /\ tas'.op = "seek_to" => tas'.selected_frame = tas.selected_frame]_vars

\* C19 witness: a select_prev has moved the selection and the view back
\* together to frame 1, whose snapshot is no longer cached while those of
\* frames 2 and 3, played before, are: the core is back at frame 0.
C19_Witness ==
  /\ tas.op = "select_prev"
  /\ tas.selection_locked
  /\ tas.selected_frame = 1
  /\ tas.playback_cursor = 1
  /\ tas.next_emulator_frame = 0
  /\ DOMAIN tas.greenzone = {0, 2, 3}

\* C20: select_next(n) and select_prev(n) return with run_mode Paused for
\* every n, 0 and the n clamped to no movement included; toggle_playback
\* turns Paused into Running{stop_at: None, record_mode: ReadOnly} and every
\* Running mode into Paused, and changes no cursor, nor the log, the cache,
\* the core or the accumulator.
C20_SelectPausesToggleFlips ==
  /\ [](tas.op \in {"select_next", "select_prev"} => tas.run_mode = Paused)
  /\ [][TogglePlayback =>
          /\ tas'.run_mode = IF tas.run_mode = Paused
                             THEN Running(None, ReadOnly)
                             ELSE Paused
          /\ SameSimulation(tas, tas')
          /\ tas'.playback_cursor = tas.playback_cursor
          /\ tas'.selected_frame = tas.selected_frame
          /\ tas'.core_frame_fraction = tas.core_frame_fraction
          /\ tas'.panic = NoPanic]_vars

\* C20 witness: toggle_playback has turned Paused into Running{None,
\* ReadOnly} in the middle of an edited log, the core one frame ahead of the
\* frame in view.
C20_Witness ==
  /\ tas.op = "toggle_playback"
  /\ tas.run_mode = Running(None, ReadOnly)
  /\ tas.playback_cursor = 1
  /\ tas.next_emulator_frame = 2
  /\ frame(tas, 0) = PressedRecord

====
